---- MODULE Spec2Model ----
(***************************************************************************)
(* Claims decision pipeline: check_policy_compliance (compliance_checker), *)
(* intelligent_route (workflow_router) and ClaimsPipeline.run (pipeline).  *)
(*                                                                         *)
(* Python str values are sequences of one-character strings, so that       *)
(* regular-expression matching, lower() and the substring test are         *)
(* computed character by character.  A formatted message (an f-string) is  *)
(* the concatenation of its literal pieces, each one token, with the       *)
(* formatted values.  Python None is the one-token sequence <<"None">>.    *)
(***************************************************************************)
EXTENDS Integers, Sequences, FiniteSets, TLC

VARIABLES
    policy_db,      \* POLICY_DB, loaded once from the configuration
    config,         \* CONFIDENCE_THRESHOLD and ROUTING_RULES
    c_pc,           \* position of a direct caller of check_policy_compliance
    c_args,         \* its arguments
    c_ret,          \* its return value
    r_pc,           \* position of a direct caller of intelligent_route
    r_arg,          \* its argument claim_data
    r_ret,          \* its return value
    pc,             \* position of ClaimsPipeline.run
    extracted,      \* what process_document returned
    classified,     \* what classify_claim returned
    compliance,     \* what check_policy_compliance returned to run
    final_decision, \* what intelligent_route returned to run
    result,         \* what run returned
    calls           \* how many times run invoked each stage

vars == <<policy_db, config, c_pc, c_args, c_ret, r_pc, r_arg, r_ret,
          pc, extracted, classified, compliance, final_decision, result, calls>>

(***************************************************************************)
(* Bounds of the model                                                     *)
(***************************************************************************)
MaxTextLen == 3

(***************************************************************************)
(* Python values                                                           *)
(***************************************************************************)
None == <<"None">>

UpperSeq == <<"A","B","C","D","E","F","G","H","I","J","K","L","M",
              "N","O","P","Q","R","S","T","U","V","W","X","Y","Z">>

LowerSeq == <<"a","b","c","d","e","f","g","h","i","j","k","l","m",
              "n","o","p","q","r","s","t","u","v","w","x","y","z">>

Digits == {"0","1","2","3","4","5","6","7","8","9"}

IsUpper(c) == \E i \in 1..26 : UpperSeq[i] = c

IsDigit(c) == c \in Digits

\* str.lower() on one character
LowerChar(c) ==
    IF IsUpper(c) THEN LowerSeq[CHOOSE i \in 1..26 : UpperSeq[i] = c] ELSE c

\* str.lower()
Lower(s) == [i \in 1..Len(s) |-> LowerChar(s[i])]

\* the Python test  sub in s  on two str values
Contains(s, sub) ==
    \E k \in 0..(Len(s) - Len(sub)) :
        \A i \in 1..Len(sub) : s[k + i] = sub[i]

\* Python truth value of a str-or-None value
Truthy(s) == s # None /\ s # <<>>

\* re.match(r"PN-[A-Z]+-\d+", s): the pattern anchored at the start of s only
ReMatchPolicy(s) ==
    \E i \in 4..Len(s) : \E j \in (i + 2)..Len(s) :
        /\ s[1] = "P" /\ s[2] = "N" /\ s[3] = "-"
        /\ \A k \in 4..i : IsUpper(s[k])
        /\ s[i + 1] = "-"
        /\ \A k \in (i + 2)..j : IsDigit(s[k])

(***************************************************************************)
(* compliance_checker.py                                                   *)
(***************************************************************************)
\* a value that is a dictionary or is not one (None, a list)
Dict(d) == [isdict |-> TRUE, d |-> d]

NotADict == [isdict |-> FALSE, d |-> <<>>]

\* Python truth value of a dictionary-or-None: None and {} are false
DictTruthy(x) == x.isdict /\ DOMAIN x.d # {}

\* dict.get(key) on POLICY_DB
DbGet(db, policy_number) ==
    IF policy_number \in DOMAIN db THEN Dict(db[policy_number]) ELSE NotADict

\* the loop over policy["exclusions"]: the index of the first exclusion that
\* occurs in claim_details.lower(), 0 when the loop runs to its end
RECURSIVE ScanExclusions(_, _, _)
ScanExclusions(exclusions, i, lowered) ==
    IF i > Len(exclusions) THEN 0
    ELSE IF Contains(lowered, exclusions[i]) THEN i
    ELSE ScanExclusions(exclusions, i + 1, lowered)

\* the tuple (is_compliant, reason) a call returns; raised is FALSE
Verdict(ok, reason) == [raised |-> FALSE, is_compliant |-> ok, reason |-> reason]

\* a call that ended by raising an exception whose str() is message
Raised(message) == [raised |-> TRUE, is_compliant |-> FALSE, reason |-> message]

\* policy[key] on a record without the key: str(KeyError(key)) is the key in
\* quotes
KeyError(key) == Raised(<<key>>)

\* the body of the try statement of check_policy_compliance
compliance_try(db, policy_number, claim_type, claim_details) ==
    IF ~Truthy(policy_number) \/ ~Truthy(claim_type) \/ ~Truthy(claim_details)
    THEN Verdict(FALSE, <<"Invalid Data (Missing Policy No., Claim Type, or Claim Details)">>)
    ELSE IF ~ReMatchPolicy(policy_number)
    THEN Verdict(FALSE, <<"Invalid Policy Number format: ">> \o policy_number)
    ELSE LET found == DbGet(db, policy_number)
             policy == found.d
    IN
    IF ~DictTruthy(found)
    THEN Verdict(FALSE, <<"Policy ">> \o policy_number \o <<" not found">>)
    ELSE IF "coverage" \notin DOMAIN policy
    THEN KeyError("'coverage'")
    ELSE IF claim_type \notin policy["coverage"]
    THEN Verdict(FALSE, <<"Claim type '">> \o claim_type \o <<"' is not covered.">>)
    ELSE IF "exclusions" \notin DOMAIN policy
    THEN KeyError("'exclusions'")
    ELSE LET hit == ScanExclusions(policy["exclusions"], 1, Lower(claim_details)) IN
    IF hit # 0
    THEN Verdict(FALSE, <<"Claim rejected due to exclusion clause: '">>
                          \o policy["exclusions"][hit] \o <<"'.">>)
    ELSE Verdict(TRUE, <<"Compliant">>)

\* the body without its except branch
check_policy_compliance_uncaught(db, policy_number, claim_type, claim_details) ==
    compliance_try(db, policy_number, claim_type, claim_details)

\* try ... except Exception: whatever the body raises becomes a verdict
check_policy_compliance(db, policy_number, claim_type, claim_details) ==
    LET r == compliance_try(db, policy_number, claim_type, claim_details) IN
    IF r.raised
    THEN Verdict(FALSE, <<"Compliance check failed: ">> \o r.reason)
    ELSE r

(***************************************************************************)
(* Configurations and inputs                                               *)
(***************************************************************************)
Collision == <<"collision">>
Theft == <<"theft">>

PN_A_1 == <<"P","N","-","A","-","1">>
PN_B_2 == <<"P","N","-","B","-","2">>
PN_C_3 == <<"P","N","-","C","-","3">>
PN_D_4 == <<"P","N","-","D","-","4">>
PN_AB_12 == <<"P","N","-","A","B","-","1","2">>
PN_A_1x == <<"P","N","-","A","-","1","x">>
PN_B_2_7 == <<"P","N","-","B","-","2","-","7">>

Policy(coverage, exclusions) ==
    ("coverage" :> coverage) @@ ("exclusions" :> exclusions)

\* policy_db of the configuration: well-formed policies only
StoreA ==
    (PN_A_1 :> Policy({Collision}, <<>>))
    @@ (PN_B_2 :> Policy({Collision, Theft}, <<<<"w","a","r">>, <<"a">>>>))
    @@ (PN_AB_12 :> Policy({Theft}, <<<<"r","a">>>>))

\* nothing validates the keys or the records of policy_db: a key with a
\* trailing character, a record without exclusions, an empty record, an
\* exclusion phrase with an uppercase letter
StoreB ==
    (PN_A_1 :> Policy({Collision}, <<<<"a","r">>>>))
    @@ (PN_AB_12 :> Policy({Collision, Theft}, <<<<"W","a">>, <<"r">>>>))
    @@ (PN_A_1x :> Policy({Collision}, <<>>))
    @@ (PN_C_3 :> ("coverage" :> {Collision, Theft}))
    @@ (PN_D_4 :> [k \in {} |-> {}])

Stores == {StoreA, StoreB}

WellFormedStore(db) ==
    \A k \in DOMAIN db : DOMAIN db[k] = {"coverage", "exclusions"}

PolicyNumbers ==
    { None, <<>>, PN_A_1, PN_B_2, PN_C_3, PN_D_4, PN_AB_12, PN_A_1x, PN_B_2_7,
      <<"P","N","-","Z","-","9">>,
      <<"P","N","-","a","-","1">>,
      <<"p","n","-","A","-","1">>,
      <<"P","N","-","A","-">>,
      <<"P","N","-","-","1">>,
      <<"P","N","-","A","1">>,
      <<"X","P","N","-","A","-","1">>,
      <<"P","N">> }

ClaimTypes == {Collision, Theft}

TextAlphabet == {"w", "a", "r", "W"}

SeqsUpTo(alphabet, n) == UNION {[1..m -> alphabet] : m \in 0..n}

Texts == SeqsUpTo(TextAlphabet, MaxTextLen)

(***************************************************************************)
(* Python numbers and dictionaries                                         *)
(*                                                                         *)
(* A confidence is a number of thousandths (0.6 is 600), a claim value a   *)
(* whole number of currency units.  A value that may be a number, None or  *)
(* a str is tagged with its type.                                          *)
(***************************************************************************)
PyNum(n) == [t |-> "num", v |-> n]
PyNone == [t |-> "none", v |-> 0]
PyStr == [t |-> "str", v |-> 0]

\* Python truth value: None and 0 are false, a non-empty str is true
PyTruthy(x) == IF x.t = "num" THEN x.v # 0 ELSE x.t = "str"

\* dict.get(key, default)
Get(d, key, default) == IF key \in DOMAIN d THEN d[key] ELSE default

DigitSeq == <<"0","1","2","3","4","5","6","7","8","9">>

\* f"{x:.2f}" for x = c/1000, 0 <= c <= 1000, c not ending in 5: the nearest
\* number of hundredths, written with two decimals
Fmt2(c) ==
    LET h == (c + 5) \div 10 IN
    <<DigitSeq[(h \div 100) + 1], ".",
      DigitSeq[((h \div 10) % 10) + 1], DigitSeq[(h % 10) + 1]>>

(***************************************************************************)
(* workflow_router.py                                                      *)
(***************************************************************************)
\* the dictionary a call returns; raised is FALSE
Decision(decision, reason) ==
    [raised |-> FALSE, decision |-> decision, reason |-> reason]

\* a call that ended by raising an exception whose str() is message
RouteRaised(message) == [raised |-> TRUE, decision |-> "", reason |-> message]

\* a comparison of a str or None with a number raises TypeError
TypeError(op, type, other) ==
    RouteRaised(<<op, " not supported between instances of ", type, " and ", other>>)

TypeName(x) == IF x.t = "str" THEN "'str'" ELSE "'NoneType'"

\* rule 1 looked at after rule 2: low confidence counts for compliant
\* records only
IsLowConfidence_AfterCompliance(cfg, d) ==
    /\ Get(d, "is_compliant", FALSE)
    /\ Get(d, "confidence", PyNum(0)).v < cfg.confidence_threshold

\* rule 1:  claim_data.get("confidence", 0.0) < CONFIDENCE_THRESHOLD
IsLowConfidence(cfg, d) ==
    Get(d, "confidence", PyNum(0)).v < cfg.confidence_threshold

\* rule 2 looked at after the priority test of rule 3
IsNonCompliant_UnlessHigh(d) ==
    ~Get(d, "is_compliant", FALSE) /\ Get(d, "priority", None) # <<"High">>

\* rule 2:  not claim_data.get("is_compliant", False)
IsNonCompliant(d) == ~Get(d, "is_compliant", FALSE)

\* an absent value read as the value zero: claim_data.get("value", 0) <= ...
HasValue_NoneAsZero(value) == value.t = "none" \/ PyTruthy(value)

\* the test  claim_data.get("value") and ...  of rules 3 and 4
HasValue(value) == PyTruthy(value)

\* the body with rule 4 tested before rule 3
route_try_Rule4First(cfg, claim_data) ==
    IF ~claim_data.isdict
    THEN Decision("Flag for Review", <<"Invalid claim data format.">>)
    ELSE LET d == claim_data.d
             confidence == Get(d, "confidence", PyNum(0))
             value == Get(d, "value", PyNone)
    IN
    IF confidence.t # "num"
    THEN TypeError("'<'", TypeName(confidence), "'float'")
    ELSE IF IsLowConfidence(cfg, d)
    THEN Decision("Flag for Manual Review",
                  <<"Low classification confidence (">> \o Fmt2(confidence.v) \o <<")">>)
    ELSE IF IsNonCompliant(d)
    THEN Decision("Auto-Deny",
                  <<"Non-compliant: ">> \o Get(d, "compliance_reason", <<"Unknown">>))
    ELSE IF HasValue(value) /\ value.t = "str"
    THEN TypeError("'<='", TypeName(value), "'int'")
    ELSE IF HasValue(value) /\ value.v <= cfg.stp_threshold
    THEN Decision("Route to Straight-Through Processing (STP)", <<"Low-value, compliant claim">>)
    ELSE IF Get(d, "priority", None) = <<"High">>
            \/ (HasValue(value) /\ value.v > cfg.high_value_threshold)
    THEN Decision("Route to Senior Adjuster", <<"High priority or high value claim">>)
    ELSE Decision("Route to General Claims Queue", <<"Standard claim">>)

\* the body of the try statement of intelligent_route
route_try(cfg, claim_data) ==
    IF ~claim_data.isdict
    THEN Decision("Flag for Review", <<"Invalid claim data format.">>)
    ELSE LET d == claim_data.d
             confidence == Get(d, "confidence", PyNum(0))
             value == Get(d, "value", PyNone)
    IN
    IF confidence.t # "num"
    THEN TypeError("'<'", TypeName(confidence), "'float'")
    ELSE IF IsLowConfidence(cfg, d)
    THEN Decision("Flag for Manual Review",
                  <<"Low classification confidence (">> \o Fmt2(confidence.v) \o <<")">>)
    ELSE IF IsNonCompliant(d)
    THEN Decision("Auto-Deny",
                  <<"Non-compliant: ">> \o Get(d, "compliance_reason", <<"Unknown">>))
    ELSE IF Get(d, "priority", None) = <<"High">>
    THEN Decision("Route to Senior Adjuster", <<"High priority or high value claim">>)
    ELSE IF HasValue(value) /\ value.t = "str"
    THEN TypeError("'>'", TypeName(value), "'int'")
    ELSE IF HasValue(value) /\ value.v > cfg.high_value_threshold
    THEN Decision("Route to Senior Adjuster", <<"High priority or high value claim">>)
    ELSE IF HasValue(value) /\ value.v <= cfg.stp_threshold
    THEN Decision("Route to Straight-Through Processing (STP)", <<"Low-value, compliant claim">>)
    ELSE Decision("Route to General Claims Queue", <<"Standard claim">>)

\* try ... except Exception: whatever the body raises becomes a decision
intelligent_route(cfg, claim_data) ==
    LET r == route_try(cfg, claim_data) IN
    IF r.raised
    THEN Decision("Flag for Manual Review", <<"Routing error: ">> \o r.reason)
    ELSE r

\* confidence_threshold and routing_rules of the configuration; the second
\* has stp_threshold above high_value_threshold, which nothing forbids
ConfigA == [confidence_threshold |-> 600, high_value_threshold |-> 10000,
            stp_threshold |-> 1000]

ConfigB == [confidence_threshold |-> 600, high_value_threshold |-> 1000,
            stp_threshold |-> 5000]

Configs == {ConfigA, ConfigB}

Confidences == {0, 400, 599, 600, 900, 1000}

ClaimValues == {0, 500, 1000, 1001, 5000, 10000, 12000}

Priorities == {<<"High">>, <<"Medium">>}

Reasons ==
    { <<"Compliant">>,
      <<"Claim type '">> \o Theft \o <<"' is not covered.">> }

ClaimDataKeys == {"confidence", "is_compliant", "compliance_reason", "priority", "value"}

\* the key sets of the dictionaries handed to intelligent_route: every key,
\* every key but one, no key
KeySets == {ClaimDataKeys} \cup {ClaimDataKeys \ {k} : k \in ClaimDataKeys} \cup {{}}

ClaimRecords ==
    { Dict([k \in K |-> full[k]]) :
        K \in KeySets,
        full \in [confidence : {PyNum(c) : c \in Confidences} \cup {PyNone, PyStr},
                  is_compliant : BOOLEAN,
                  compliance_reason : Reasons,
                  priority : Priorities \cup {None},
                  value : {PyNum(v) : v \in ClaimValues} \cup {PyNone, PyStr}] }
    \cup {NotADict}

(***************************************************************************)
(* document_processor.py and claim_classifier.py, as run calls them        *)
(***************************************************************************)
\* what process_document returns: (None, None), or the entities with the text
Extraction(entities, text) == [entities |-> entities, text |-> text]

NoExtraction == Extraction(NotADict, None)

Entities(person, policy_no, claim_value) ==
    Dict(("PERSON" :> person) @@ ("DATE" :> <<>>)
         @@ ("POLICY_NO" :> policy_no) @@ ("CLAIM_VALUE" :> claim_value))

high_priority_keywords ==
    << <<"m","a","j","o","r">>, <<"f","i","r","e">>,
       <<"t","o","t","a","l","e","d">>,
       <<"e","m","e","r","g","e","n","c","y">>,
       <<"c","o","l","l","i","s","i","o","n">> >>

\* "High" if any(kw in claim_text.lower() for kw in high_priority_keywords)
PriorityOf(claim_text) ==
    IF \E i \in 1..Len(high_priority_keywords) :
           Contains(Lower(claim_text), high_priority_keywords[i])
    THEN <<"High">> ELSE <<"Medium">>

\* what classify_claim returns
Classification(claim_type, confidence, priority) ==
    [claim_type |-> claim_type, confidence |-> confidence, priority |-> priority]

\* its early return and its except branch
NoClassification == Classification(None, 0, None)

\* the prediction of the model is any label with any confidence
classify_claim(claim_text) ==
    IF ~Truthy(claim_text) THEN {NoClassification}
    ELSE {NoClassification}
         \cup {Classification(ct, c, PriorityOf(claim_text)) :
                  ct \in ClaimTypes, c \in Confidences}

(***************************************************************************)
(* pipeline.py: ClaimsPipeline.run                                         *)
(***************************************************************************)
Persons == {<<>>, << <<"Jane Doe">> >>}

RunPolicyNumbers ==
    {None, PN_A_1, PN_B_2, PN_C_3, PN_A_1x, <<"P","N","-","Z","-","9">>,
     <<"p","n","-","A","-","1">>}

RunValues == {PyNone, PyNum(0), PyNum(500), PyNum(1001), PyNum(12000)}

RunTexts ==
    { <<"w","a","r">>, <<"r","a","w">>, <<"F","i","r","e">>,
      <<"m","a","j","o","r">>, <<"W">> }

\* process_document: nothing, or entities and text read from the document
process_document ==
    {NoExtraction}
    \cup {Extraction(Entities(p, pn, v), t) :
             p \in Persons, pn \in RunPolicyNumbers, v \in RunValues, t \in RunTexts}

\* the test left out
ExtractionFailed_Never(e) == FALSE

\* if not entities or not text
ExtractionFailed(e) == ~DictTruthy(e.entities) \/ ~Truthy(e.text)

\* if not claim_type
ClassificationFailed(c) == ~Truthy(c.claim_type)

\* a failure record that also carries what was extracted
FailedResult_WithData(reason) ==
    [status |-> "Failed", reason |-> reason, extracted_data |-> extracted.entities]

\* return {"status": "Failed", "reason": ...}
FailedResult(reason) == [status |-> "Failed", reason |-> reason]

\* the dictionary handed to intelligent_route
ClaimData(e, c, verdict) ==
    Dict(("entities" :> e.entities) @@ ("type" :> c.claim_type)
         @@ ("confidence" :> PyNum(c.confidence)) @@ ("priority" :> c.priority)
         @@ ("value" :> e.entities.d["CLAIM_VALUE"])
         @@ ("is_compliant" :> verdict.is_compliant)
         @@ ("compliance_reason" :> verdict.reason))

SuccessResult(e, c, verdict, decision) ==
    [status |-> "Success",
     extracted_data |-> e.entities,
     classification |-> [type |-> c.claim_type, priority |-> c.priority,
                         confidence |-> Fmt2(c.confidence)],
     compliance |-> [compliant |-> verdict.is_compliant, details |-> verdict.reason],
     final_routing |-> [decision |-> decision.decision, reason |-> decision.reason]]

\* except Exception as e  of run
Unexpected(message) ==
    FailedResult(<<"An unexpected error occurred: ">> \o message)

NoResult == [status |-> "Running"]

NoCalls == [extract |-> 0, classify |-> 0, compliance |-> 0, route |-> 0]

Called(stage) == [calls EXCEPT ![stage] = @ + 1]

RunIdle ==
    /\ pc = "idle" /\ extracted = NoExtraction /\ classified = NoClassification
    /\ compliance = Verdict(FALSE, <<>>) /\ final_decision = Decision("", <<>>)
    /\ result = NoResult /\ calls = NoCalls

Init ==
    /\ policy_db \in Stores
    /\ config \in Configs
    /\ c_pc = "idle" /\ c_args = <<None, None, None>> /\ c_ret = Verdict(FALSE, <<>>)
    /\ r_pc = "idle" /\ r_arg = NotADict /\ r_ret = Decision("", <<>>)
    /\ pc = "Extracting"
    /\ extracted = NoExtraction
    /\ classified = NoClassification
    /\ compliance = Verdict(FALSE, <<>>)
    /\ final_decision = Decision("", <<>>)
    /\ result = NoResult
    /\ calls = NoCalls

\* 1. Document Processing
Extract ==
    /\ pc = "Extracting"
    /\ \E e \in process_document :
        /\ extracted' = e
        /\ calls' = Called("extract")
        /\ IF ExtractionFailed(e)
           THEN /\ pc' = "Failed"
                /\ result' = FailedResult(<<"Could not process document. The image may be unreadable or blank.">>)
           ELSE /\ pc' = "Classifying"
                /\ result' = result
    /\ UNCHANGED <<policy_db, config, c_pc, c_args, c_ret, r_pc, r_arg, r_ret,
                   classified, compliance, final_decision>>

\* 2. Claim Classification
Classify ==
    /\ pc = "Classifying"
    /\ \E c \in classify_claim(extracted.text) :
        /\ classified' = c
        /\ calls' = Called("classify")
        /\ IF ClassificationFailed(c)
           THEN /\ pc' = "Failed"
                /\ result' = FailedResult(<<"Could not classify the claim from the text.">>)
           ELSE /\ pc' = "CheckingCompliance"
                /\ result' = result
    /\ UNCHANGED <<policy_db, config, c_pc, c_args, c_ret, r_pc, r_arg, r_ret,
                   extracted, compliance, final_decision>>

\* 3. Policy Compliance Check
CheckCompliance ==
    /\ pc = "CheckingCompliance"
    /\ LET verdict == check_policy_compliance(policy_db,
                          extracted.entities.d["POLICY_NO"],
                          classified.claim_type, extracted.text)
       IN /\ compliance' = verdict
          /\ calls' = Called("compliance")
          /\ IF verdict.raised
             THEN /\ pc' = "Failed"
                  /\ result' = Unexpected(verdict.reason)
             ELSE /\ pc' = "Routing"
                  /\ result' = result
    /\ UNCHANGED <<policy_db, config, c_pc, c_args, c_ret, r_pc, r_arg, r_ret,
                   extracted, classified, final_decision>>

\* 4. Intelligent Routing, and the final outcome summary
Route ==
    /\ pc = "Routing"
    /\ LET decision == intelligent_route(config,
                           ClaimData(extracted, classified, compliance))
       IN /\ final_decision' = decision
          /\ calls' = Called("route")
          /\ IF decision.raised
             THEN /\ pc' = "Failed"
                  /\ result' = Unexpected(decision.reason)
             ELSE /\ pc' = "Done"
                  /\ result' = SuccessResult(extracted, classified, compliance, decision)
    /\ UNCHANGED <<policy_db, config, c_pc, c_args, c_ret, r_pc, r_arg, r_ret,
                   extracted, classified, compliance>>

Next == Extract \/ Classify \/ CheckCompliance \/ Route

Spec == Init /\ [][Next]_vars

\* run is one synchronous call: it goes on until it returns
FairSpec == Spec /\ WF_vars(Next)

(***************************************************************************)
(* A direct call of check_policy_compliance                                *)
(***************************************************************************)
InitCompliance ==
    /\ policy_db \in Stores
    /\ config = ConfigA
    /\ c_pc = "call"
    /\ c_args \in (PolicyNumbers \X (ClaimTypes \cup {None, <<>>}) \X (Texts \cup {None}))
    /\ c_ret = Verdict(FALSE, <<>>)
    /\ r_pc = "idle" /\ r_arg = NotADict /\ r_ret = Decision("", <<>>)
    /\ RunIdle

CallCompliance ==
    /\ c_pc = "call"
    /\ c_pc' = "returned"
    /\ c_ret' = check_policy_compliance(policy_db, c_args[1], c_args[2], c_args[3])
    /\ UNCHANGED <<policy_db, config, c_args, r_pc, r_arg, r_ret,
                   pc, extracted, classified, compliance, final_decision, result, calls>>

SpecCompliance == InitCompliance /\ [][CallCompliance]_vars

(***************************************************************************)
(* A direct call of intelligent_route                                      *)
(***************************************************************************)
InitRoute ==
    /\ policy_db = StoreA
    /\ config \in Configs
    /\ c_pc = "idle" /\ c_args = <<None, None, None>> /\ c_ret = Verdict(FALSE, <<>>)
    /\ r_pc = "call"
    /\ r_arg \in ClaimRecords
    /\ r_ret = Decision("", <<>>)
    /\ RunIdle

CallRoute ==
    /\ r_pc = "call"
    /\ r_pc' = "returned"
    /\ r_ret' = intelligent_route(config, r_arg)
    /\ UNCHANGED <<policy_db, config, c_pc, c_args, c_ret, r_arg,
                   pc, extracted, classified, compliance, final_decision, result, calls>>

SpecRoute == InitRoute /\ [][CallRoute]_vars

(***************************************************************************)
(* The compliance rules as the specification words them                    *)
(***************************************************************************)
\* s is PN-<one-or-more-uppercase-letters>-<one-or-more-digits>, all of it
HasPolicyForm(s) ==
    \E i \in 4..Len(s) :
        /\ i + 2 <= Len(s)
        /\ s[1] = "P" /\ s[2] = "N" /\ s[3] = "-"
        /\ \A k \in 4..i : IsUpper(s[k])
        /\ s[i + 1] = "-"
        /\ \A k \in (i + 2)..Len(s) : IsDigit(s[k])

Missing(x) == x = None \/ x = <<>>

\* the first of the five rules that fails on a store of well-formed policies,
\* 0 when none does
FirstFailingRule(db, policy_number, claim_type, claim_details) ==
    IF Missing(policy_number) \/ Missing(claim_type) \/ Missing(claim_details) THEN 1
    ELSE IF ~HasPolicyForm(policy_number) THEN 2
    ELSE IF policy_number \notin DOMAIN db THEN 3
    ELSE IF claim_type \notin db[policy_number]["coverage"] THEN 4
    ELSE IF \E i \in 1..Len(db[policy_number]["exclusions"]) :
                Contains(Lower(claim_details), db[policy_number]["exclusions"][i]) THEN 5
    ELSE 0

\* the rule a verdict is the outcome of, told by the text its reason starts
\* with; 6 is the diagnostic of a caught error
RuleOfVerdict(v) ==
    CASE v.reason[1] = "Compliant" -> 0
      [] v.reason[1] = "Invalid Data (Missing Policy No., Claim Type, or Claim Details)" -> 1
      [] v.reason[1] = "Invalid Policy Number format: " -> 2
      [] v.reason[1] = "Policy " -> 3
      [] v.reason[1] = "Claim type '" -> 4
      [] v.reason[1] = "Claim rejected due to exclusion clause: '" -> 5
      [] OTHER -> 6

\* C1: on a store of well-formed policies, the verdict returned is the
\* outcome of the first of the rules (1) missing field, (2) policy number
\* format, (3) policy lookup, (4) coverage, (5) exclusions that fails, and it
\* is (True, "Compliant") exactly when none of them fails.
C1_FirstFailingRuleWins ==
    (c_pc = "returned" /\ WellFormedStore(policy_db)) =>
        LET first == FirstFailingRule(policy_db, c_args[1], c_args[2], c_args[3]) IN
        /\ RuleOfVerdict(c_ret) = first
        /\ c_ret.is_compliant <=> (first = 0)
        /\ (c_ret.is_compliant /\ c_ret.reason = <<"Compliant">>) <=> (first = 0)

\* C2: a policy number given with a claim type and a claim text, and not of
\* the form PN-<uppercase letters>-<digits>, gets a non-compliant verdict
\* whose reason is the format error and includes the policy number, whatever
\* the claim type, the claim text and the store.
C2_MalformedNumberIsFormatError ==
    (/\ c_pc = "returned"
     /\ ~Missing(c_args[1]) /\ ~Missing(c_args[2]) /\ ~Missing(c_args[3])
     /\ ~HasPolicyForm(c_args[1])) =>
        /\ ~c_ret.is_compliant
        /\ c_ret.reason[1] = "Invalid Policy Number format: "
        /\ Contains(c_ret.reason, c_args[1])

(***************************************************************************)
(* Routing claims                                                          *)
(***************************************************************************)
RoutingDecisions ==
    { "Flag for Manual Review", "Auto-Deny", "Route to Senior Adjuster",
      "Route to Straight-Through Processing (STP)", "Route to General Claims Queue" }

\* the claim record is a dictionary with a numeric confidence (default 0.0)
Routed == r_pc = "returned" /\ r_arg.isdict /\ Get(r_arg.d, "confidence", PyNum(0)).t = "num"

ConfidenceOfArg == Get(r_arg.d, "confidence", PyNum(0)).v

\* the record passes rule 1 and carries is_compliant = True
PassesRules1And2 ==
    /\ Routed
    /\ ConfidenceOfArg >= config.confidence_threshold
    /\ "is_compliant" \in DOMAIN r_arg.d /\ r_arg.d["is_compliant"]

PriorityIsHigh == "priority" \in DOMAIN r_arg.d /\ r_arg.d["priority"] = <<"High">>

ValueAbsent == "value" \notin DOMAIN r_arg.d \/ r_arg.d["value"].t = "none"

\* C3: a record whose confidence is below the threshold is flagged for manual
\* review, whatever its compliance, priority and value.
C3_LowConfidenceFlags ==
    (Routed /\ ConfidenceOfArg < config.confidence_threshold) =>
        r_ret.decision = "Flag for Manual Review"

\* a compliant, High-priority, high-value record of low confidence was flagged
C3_Witness ==
    /\ Routed /\ DOMAIN r_arg.d = ClaimDataKeys
    /\ ConfidenceOfArg = 599
    /\ r_arg.d["is_compliant"] /\ PriorityIsHigh
    /\ r_arg.d["value"] = PyNum(12000)
    /\ r_ret.decision = "Flag for Manual Review"

\* C4: a compliant record of sufficient confidence and priority other than
\* High whose value is present, a number >= 0, at most stp_threshold and not
\* above high_value_threshold, is routed to STP.
C4_PresentLowValueIsSTP ==
    (/\ PassesRules1And2 /\ ~PriorityIsHigh
     /\ "value" \in DOMAIN r_arg.d /\ r_arg.d["value"].t = "num"
     /\ r_arg.d["value"].v >= 0
     /\ r_arg.d["value"].v <= config.stp_threshold
     /\ ~(r_arg.d["value"].v > config.high_value_threshold)) =>
        r_ret.decision = "Route to Straight-Through Processing (STP)"

\* C5: a compliant record of sufficient confidence and priority other than
\* High that has no value (no key, or None) goes to the general queue, never
\* to STP.
C5_AbsentValueIsGeneralQueue ==
    (PassesRules1And2 /\ ~PriorityIsHigh /\ ValueAbsent) =>
        r_ret.decision = "Route to General Claims Queue"

\* a Medium-priority compliant record without the value key went to the queue
C5_Witness ==
    /\ PassesRules1And2
    /\ "value" \notin DOMAIN r_arg.d
    /\ "priority" \in DOMAIN r_arg.d /\ r_arg.d["priority"] = <<"Medium">>
    /\ r_ret.decision = "Route to General Claims Queue"

\* C6: a record of sufficient confidence with is_compliant false is denied,
\* with a reason that contains the compliance reason the record carries,
\* whatever its priority and value.
C6_NonCompliantIsDenied ==
    (/\ Routed
     /\ ConfidenceOfArg >= config.confidence_threshold
     /\ "is_compliant" \in DOMAIN r_arg.d /\ ~r_arg.d["is_compliant"]) =>
        /\ r_ret.decision = "Auto-Deny"
        /\ "compliance_reason" \in DOMAIN r_arg.d =>
               Contains(r_ret.reason, r_arg.d["compliance_reason"])

\* a non-compliant, High-priority, high-value record was denied
C6_Witness ==
    /\ Routed /\ DOMAIN r_arg.d = ClaimDataKeys
    /\ ConfidenceOfArg = 900
    /\ ~r_arg.d["is_compliant"] /\ PriorityIsHigh
    /\ r_arg.d["value"] = PyNum(12000)
    /\ r_arg.d["compliance_reason"] = <<"Claim type '", "theft", "' is not covered.">>
    /\ r_ret.decision = "Auto-Deny"

\* C7: every call returns, without raising, one of the five routing
\* decisions, and a claim record that is no dictionary is flagged for manual
\* review.
C7_AlwaysOneOfFiveDecisions ==
    r_pc = "returned" =>
        /\ ~r_ret.raised
        /\ r_ret.decision \in RoutingDecisions
        /\ (~r_arg.isdict) => r_ret.decision = "Flag for Manual Review"

(***************************************************************************)
(* Pipeline claims                                                         *)
(***************************************************************************)
ExtractionReason ==
    <<"Could not process document. The image may be unreadable or blank.">>

ClassificationReason == <<"Could not classify the claim from the text.">>

\* process_document was called and returned no entities or no text
NoEntitiesOrText ==
    /\ calls.extract > 0
    /\ \/ ~extracted.entities.isdict
       \/ DOMAIN extracted.entities.d = {}
       \/ Missing(extracted.text)

\* classify_claim was called and returned no claim type
NoClaimType == calls.classify > 0 /\ Missing(classified.claim_type)

\* C8: after an extraction without entities or text the run has failed with
\* the extraction reason and no later stage was invoked; after a
\* classification without claim type the run has failed with the
\* classification reason and neither compliance nor routing was invoked; a
\* stage is invoked at most once, and only after every earlier stage
\* succeeded.
C8_FailureStopsLaterStages ==
    /\ NoEntitiesOrText =>
           /\ pc = "Failed" /\ result = FailedResult(ExtractionReason)
           /\ calls.classify = 0 /\ calls.compliance = 0 /\ calls.route = 0
    /\ NoClaimType =>
           /\ pc = "Failed" /\ result = FailedResult(ClassificationReason)
           /\ calls.compliance = 0 /\ calls.route = 0
    /\ \A stage \in DOMAIN calls : calls[stage] <= 1
    /\ calls.classify > 0 => (calls.extract = 1 /\ ~NoEntitiesOrText)
    /\ calls.compliance > 0 => (calls.classify = 1 /\ ~NoClaimType)
    /\ calls.route > 0 => (calls.compliance = 1 /\ ~compliance.raised)

\* the classification of an extracted text failed and the run stopped there
C8_Witness ==
    /\ pc = "Failed"
    /\ calls = [extract |-> 1, classify |-> 1, compliance |-> 0, route |-> 0]
    /\ extracted.entities.isdict
    /\ NoClaimType
    /\ result.reason = ClassificationReason

\* C9: once the compliance stage is reached the run ends in Done with status
\* Success, and it is never Failed after the compliance stage was invoked.
C9_ComplianceReachedEndsDone ==
    /\ (pc = "CheckingCompliance") ~> (pc = "Done" /\ result.status = "Success")
    /\ [](calls.compliance > 0 => pc # "Failed")

\* a run without policy number and without claim value ended in Done
C9_Witness ==
    /\ pc = "Done" /\ result.status = "Success"
    /\ extracted.entities.d["POLICY_NO"] = None
    /\ extracted.entities.d["CLAIM_VALUE"] = PyNone
    /\ ~compliance.is_compliant

SuccessKeys == {"status", "extracted_data", "classification", "compliance", "final_routing"}

\* C10: a returned result is either a Success record whose fields are the
\* outputs of the four completed stages, or a Failed record with a reason
\* and nothing else; before the return there is no result.
C10_ResultShapes ==
    /\ pc \notin {"Done", "Failed"} => result = NoResult
    /\ pc = "Done" =>
           /\ DOMAIN result = SuccessKeys
           /\ result.status = "Success"
           /\ calls = [extract |-> 1, classify |-> 1, compliance |-> 1, route |-> 1]
           /\ result.extracted_data = extracted.entities
           /\ extracted.entities.isdict
           /\ result.classification.type = classified.claim_type
           /\ result.classification.priority = classified.priority
           /\ result.classification.confidence = Fmt2(classified.confidence)
           /\ ~Missing(classified.claim_type)
           /\ result.compliance.compliant = compliance.is_compliant
           /\ result.compliance.details = compliance.reason
           /\ result.final_routing.decision = final_decision.decision
           /\ result.final_routing.reason = final_decision.reason
           /\ final_decision.decision # "" /\ compliance.reason # <<>>
    /\ pc = "Failed" =>
           /\ DOMAIN result = {"status", "reason"}
           /\ result.status = "Failed"
           /\ result.reason # <<>>

\* a run returned a Success record routed to STP
C10_Witness ==
    /\ pc = "Done"
    /\ result.status = "Success"
    /\ result.final_routing.decision = "Route to Straight-Through Processing (STP)"
    /\ result.compliance.compliant

(***************************************************************************)
(* Exclusion scan                                                          *)
(***************************************************************************)
\* rules 1 to 4, as the specification words them, pass on the arguments of
\* the call, and the policy found has its exclusions
RulesOneToFourPass ==
    /\ ~Missing(c_args[1]) /\ ~Missing(c_args[2]) /\ ~Missing(c_args[3])
    /\ HasPolicyForm(c_args[1])
    /\ c_args[1] \in DOMAIN policy_db
    /\ DOMAIN policy_db[c_args[1]] = {"coverage", "exclusions"}
    /\ c_args[2] \in policy_db[c_args[1]]["coverage"]

\* phrase occurs in text, letter case ignored, anywhere and not only as a word
OccursIgnoringCase(text, phrase) == Contains(Lower(text), Lower(phrase))

\* C11: when rules 1 to 4 pass, the verdict is non-compliant with the reason
\* naming the first exclusion, in stored order, that occurs in the claim text
\* as a case-insensitive substring, and it is (True, "Compliant") when no
\* exclusion occurs in the text.
C11_FirstExclusionWins ==
    (c_pc = "returned" /\ RulesOneToFourPass) =>
        LET exclusions == policy_db[c_args[1]]["exclusions"]
            hits == {i \in 1..Len(exclusions) :
                        OccursIgnoringCase(c_args[3], exclusions[i])}
        IN
        IF hits = {}
        THEN c_ret.is_compliant /\ c_ret.reason = <<"Compliant">>
        ELSE LET first == CHOOSE i \in hits : \A h \in hits : i <= h IN
             /\ ~c_ret.is_compliant
             /\ c_ret.reason = <<"Claim rejected due to exclusion clause: '">>
                                  \o exclusions[first] \o <<"'.">>

(***************************************************************************)
(* Senior adjuster                                                         *)
(***************************************************************************)
\* the record carries a value that is a number above high_value_threshold
ValueIsHigh ==
    /\ "value" \in DOMAIN r_arg.d /\ r_arg.d["value"].t = "num"
    /\ r_arg.d["value"].v > config.high_value_threshold

\* C12: a compliant record of sufficient confidence whose priority is High,
\* or whose value is present and above high_value_threshold, is routed to
\* the senior adjuster, also when its value is at most stp_threshold.
C12_HighPriorityOrValueIsSenior ==
    (PassesRules1And2 /\ (PriorityIsHigh \/ ValueIsHigh)) =>
        r_ret.decision = "Route to Senior Adjuster"

\* with stp_threshold above high_value_threshold, a Medium-priority record
\* whose value is above the one and at most the other went to the senior
\* adjuster
C12_Witness ==
    /\ PassesRules1And2 /\ ValueIsHigh /\ ~PriorityIsHigh
    /\ config.stp_threshold > config.high_value_threshold
    /\ r_arg.d["value"].v <= config.stp_threshold
    /\ r_ret.decision = "Route to Senior Adjuster"

====
